---- MODULE Spec2Model ----
(***************************************************************************)
(* Model of oas_filter.py: the schema filter (filter_components and its    *)
(* helpers), the keep-list resolution (parse_keep_argument) and the        *)
(* command-line wrapper (main).                                            *)
(*                                                                         *)
(* JSON values are tagged records; a Python str is a sequence of           *)
(* one-character strings, so that substring tests are computed.  A dict is *)
(* a sequence of <<key, value>> pairs in insertion order.  A raised        *)
(* exception is the tagged value Exc(name).                                *)
(***************************************************************************)
EXTENDS Integers, Sequences, FiniteSets, TLC

VARIABLES
    spec,             \* the document object handed to filter_components (mutated in place)
    given,            \* the document as first handed in
    prev,             \* the document as it was before the last call
    objects_to_keep,  \* the keep-list of the last (or next) call
    calls,            \* number of filter_components calls made so far
    outcome,          \* "none" | "returned" | "raised": how the last call ended
    pc,               \* position of main: "lib" when the functions are called directly
    keep_args,        \* args.keep
    files,            \* the file system seen by the keep-list resolution: path -> entry
    input_file,       \* what args.input_file names
    output_file,      \* what args.output_file names, then what was written
    stdout,           \* messages printed to standard output
    stderr,           \* messages printed to standard error
    status            \* exit status, -1 while running

vars == <<spec, given, prev, objects_to_keep, calls, outcome, pc, keep_args, files,
          input_file, output_file, stdout, stderr, status>>

-----------------------------------------------------------------------------
(* Bounds of the model *)

MaxKeep == 2      \* longest keep-list handed to filter_components directly
MaxAllOf == 2     \* longest allOf list
MaxEnum == 2      \* longest SObjectType.enum list
MaxFileLen == 3   \* longest keep-file content, in characters
MaxArgs == 2      \* most --keep arguments

-----------------------------------------------------------------------------
(* Python strings *)

S_components == <<"c","o","m","p","o","n","e","n","t","s">>
S_schemas == <<"s","c","h","e","m","a","s">>
S_allOf == <<"a","l","l","O","f">>
S_ref == <<"$","r","e","f">>
S_SObject == <<"S","O","b","j","e","c","t">>
S_SObjectType == <<"S","O","b","j","e","c","t","T","y","p","e">>
S_enum == <<"e","n","u","m">>

S_paths == <<"p","a","t","h","s">>
S_parameters == <<"p","a","r","a","m","e","t","e","r","s">>
S_type == <<"t","y","p","e">>
S_object == <<"o","b","j","e","c","t">>
S_string == <<"s","t","r","i","n","g">>
S_sobject == <<"s","o","b","j","e","c","t">>
Foo == <<"F","o","o">>
Bar == <<"B","a","r">>
Nope == <<"N","o","p","e">>
Other == <<"O","t","h","e","r">>
RefPrefix == <<"#","/">> \o S_components \o <<"/">> \o S_schemas \o <<"/">>

-----------------------------------------------------------------------------
(* JSON values as json.load builds them *)

Null == [t |-> "null"]
Num(n) == [t |-> "num", n |-> n]
Str(s) == [t |-> "str", s |-> s]
List(xs) == [t |-> "list", xs |-> xs]
Dict(kv) == [t |-> "dict", kv |-> kv]
Exc(e) == [t |-> "exc", e |-> e]
Obj1(k, v) == Dict(<< <<k, v>> >>)
Obj2(k1, v1, k2, v2) == Dict(<< <<k1, v1>>, <<k2, v2>> >>)

IsExc(v) == v.t = "exc"

HasKey(kv, k) == \E i \in 1..Len(kv) : kv[i][1] = k
Lookup(kv, k) == kv[CHOOSE i \in 1..Len(kv) : kv[i][1] = k][2]
\* d[k] = v on a dict: a present key keeps its position, a new key goes last
Store(kv, k, v) ==
    IF HasKey(kv, k)
    THEN [i \in 1..Len(kv) |-> IF kv[i][1] = k THEN <<k, v>> ELSE kv[i]]
    ELSE Append(kv, <<k, v>>)
Keys(kv) == {kv[i][1] : i \in 1..Len(kv)}
KeySeq(kv) == [i \in 1..Len(kv) |-> kv[i][1]]

IsSubstr(n, h) ==
    \E i \in 0..(Len(h) - Len(n)) : SubSeq(h, i + 1, i + Len(n)) = n

\* x in c, for a JSON value x: "T", "F", or "E" when Python raises TypeError
PyIn(x, c) ==
    CASE c.t = "dict" ->
            IF x.t \in {"list", "dict"} THEN "E"
            ELSE IF x.t = "str" /\ HasKey(c.kv, x.s) THEN "T" ELSE "F"
      [] c.t = "list" ->
            IF \E i \in 1..Len(c.xs) : c.xs[i] = x THEN "T" ELSE "F"
      [] c.t = "str" ->
            IF x.t # "str" THEN "E"
            ELSE IF IsSubstr(x.s, c.s) THEN "T" ELSE "F"
      [] OTHER -> "E"

\* c[k] for a str key k
PyGetItem(c, k) ==
    IF c.t = "dict"
    THEN IF HasKey(c.kv, k) THEN Lookup(c.kv, k) ELSE Exc("KeyError")
    ELSE Exc("TypeError")

\* the items "for x in c" visits, as a list value
PyIter(c) ==
    CASE c.t = "list" -> c
      [] c.t = "dict" -> List([i \in 1..Len(c.kv) |-> Str(c.kv[i][1])])
      [] c.t = "str" -> List([i \in 1..Len(c.s) |-> Str(<<c.s[i]>>)])
      [] OTHER -> Exc("TypeError")

-----------------------------------------------------------------------------
(* has_sobject_reference: "T", "F", or "E" when it raises *)

RECURSIVE ScanAllOf(_)
ScanAllOf(items) ==
    IF items = <<>> THEN "F"
    ELSE LET item == Head(items)
             hasRef == PyIn(Str(S_ref), item)
             r == PyGetItem(item, S_ref)
             m == PyIn(Str(S_SObject), r)
         IN  IF hasRef = "E" THEN "E"
             ELSE IF hasRef = "F" THEN ScanAllOf(Tail(items))
             ELSE IF IsExc(r) THEN "E"
             ELSE IF m = "E" THEN "E"
             ELSE IF m = "T" THEN "T"
             ELSE ScanAllOf(Tail(items))

\* a plausible slip: only the first allOf item is inspected
ScanAllOf_FirstOnly(items) ==
    IF items = <<>> THEN "F"
    ELSE LET item == Head(items)
             hasRef == PyIn(Str(S_ref), item)
             r == PyGetItem(item, S_ref)
             m == PyIn(Str(S_SObject), r)
         IN  IF hasRef = "E" THEN "E"
             ELSE IF hasRef = "F" THEN "F"
             ELSE IF IsExc(r) THEN "E"
             ELSE m

has_sobject_reference_FirstOnly(schema) ==
    LET c == PyIn(Str(S_allOf), schema)
        a == PyGetItem(schema, S_allOf)
        it == PyIter(a)
    IN  IF c = "E" THEN "E"
        ELSE IF c = "F" THEN "F"
        ELSE IF IsExc(a) THEN "E"
        ELSE IF IsExc(it) THEN "E"
        ELSE ScanAllOf_FirstOnly(it.xs)

has_sobject_reference(schema) ==
    LET c == PyIn(Str(S_allOf), schema)
        a == PyGetItem(schema, S_allOf)
        it == PyIter(a)
    IN  IF c = "E" THEN "E"
        ELSE IF c = "F" THEN "F"
        ELSE IF IsExc(a) THEN "E"
        ELSE IF IsExc(it) THEN "E"
        ELSE ScanAllOf(it.xs)

-----------------------------------------------------------------------------
(* filter_components and its passes.  A pass yields the dict it built, or  *)
(* Exc(..) when a step of it raises.                                       *)

\* lines 98-100: for obj_name in objects_to_keep
RECURSIVE KeepLoop(_, _, _)
KeepLoop(original, keep, filtered) ==
    IF keep = <<>> THEN Dict(filtered)
    ELSE LET obj_name == Head(keep)
             c == PyIn(Str(obj_name), original)
             v == PyGetItem(original, obj_name)
         IN  IF c = "E" THEN Exc("TypeError")
             ELSE IF c = "F" THEN KeepLoop(original, Tail(keep), filtered)
             ELSE IF IsExc(v) THEN v
             ELSE KeepLoop(original, Tail(keep), Store(filtered, obj_name, v))

\* a plausible slip: the kept names are collected in the original mapping's order
KeepPass_OriginalOrder(original, keep) ==
    IF original.t # "dict" THEN Exc("TypeError")
    ELSE Dict(SelectSeq(original.kv,
                        LAMBDA e : \E i \in 1..Len(keep) : keep[i] = e[1]))

\* a plausible slip: the keep-list is not consulted
KeepPass_Skipped(original, keep) == Dict(<<>>)

KeepPass(original, keep) == KeepLoop(original, keep, <<>>)

\* lines 103-105: for name, schema in original_schemas.items()
RECURSIVE ImplicitLoop(_, _)
ImplicitLoop(entries, filtered) ==
    IF entries = <<>> THEN Dict(filtered)
    ELSE LET name == Head(entries)[1]
             schema == Head(entries)[2]
             h == has_sobject_reference(schema)
         IN  IF HasKey(filtered, name) THEN ImplicitLoop(Tail(entries), filtered)
             ELSE IF h = "E" THEN Exc("TypeError")
             ELSE IF h = "T" THEN ImplicitLoop(Tail(entries), filtered)
             ELSE ImplicitLoop(Tail(entries), Store(filtered, name, schema))

\* a plausible slip: deleting while iterating, so the entry after a dropped one
\* is never examined and stays
RECURSIVE ImplicitLoop_SkipAfterDrop(_, _)
ImplicitLoop_SkipAfterDrop(entries, filtered) ==
    IF entries = <<>> THEN Dict(filtered)
    ELSE LET name == Head(entries)[1]
             schema == Head(entries)[2]
             h == has_sobject_reference(schema)
             rest == Tail(entries)
         IN  IF HasKey(filtered, name) THEN ImplicitLoop_SkipAfterDrop(rest, filtered)
             ELSE IF h = "E" THEN Exc("TypeError")
             ELSE IF h = "T"
                  THEN IF rest = <<>> THEN Dict(filtered)
                       ELSE ImplicitLoop_SkipAfterDrop(Tail(rest),
                               IF HasKey(filtered, Head(rest)[1]) THEN filtered
                               ELSE Store(filtered, Head(rest)[1], Head(rest)[2]))
             ELSE ImplicitLoop_SkipAfterDrop(rest, Store(filtered, name, schema))

ImplicitPass_SkipAfterDrop(original, filtered) ==
    IF original.t # "dict" THEN Exc("AttributeError")
    ELSE ImplicitLoop_SkipAfterDrop(original.kv, filtered.kv)

ImplicitPass(original, filtered) ==
    IF original.t # "dict" THEN Exc("AttributeError")
    ELSE ImplicitLoop(original.kv, filtered.kv)

get_removed_schemas(original_schemas, filtered_schemas) ==
    Keys(original_schemas.kv) \ Keys(filtered_schemas.kv)

\* lines 73-76: the list comprehension; removed_schemas is a Python set of str
RECURSIVE EnumLoop(_, _, _)
EnumLoop(values, removed_schemas, acc) ==
    IF values = <<>> THEN List(acc)
    ELSE LET enum_value == Head(values)
         IN  IF enum_value.t \in {"list", "dict"} THEN Exc("TypeError")
             ELSE IF enum_value.t = "str" /\ enum_value.s \in removed_schemas
                  THEN EnumLoop(Tail(values), removed_schemas, acc)
             ELSE EnumLoop(Tail(values), removed_schemas, Append(acc, enum_value))

Returned(doc) == [raised |-> FALSE, spec |-> doc]
Raised(doc) == [raised |-> TRUE, spec |-> doc]

\* spec['components']['schemas'] = value, on a document whose components is a dict
SetSchemas(doc, value) ==
    Dict(Store(doc.kv, S_components,
               Dict(Store(Lookup(doc.kv, S_components).kv, S_schemas, value))))

\* schemas['SObjectType']['enum'] = value
SetEnum(schemas, value) ==
    Dict(Store(schemas.kv, S_SObjectType,
               Dict(Store(Lookup(schemas.kv, S_SObjectType).kv, S_enum, value))))

\* a plausible slip: the enum keeps only the values that name a retained schema
update_sobject_type_enum_OnlyRetained(doc, removed_schemas) ==
    LET schemas == Lookup(Lookup(doc.kv, S_components).kv, S_schemas)
        sot == PyGetItem(schemas, S_SObjectType)
        original_enum == PyGetItem(sot, S_enum)
    IN  IF sot.t = "dict" /\ original_enum.t = "list"
        THEN Returned(SetSchemas(doc, SetEnum(schemas,
                List(SelectSeq(original_enum.xs,
                               LAMBDA v : v.t = "str" /\ HasKey(schemas.kv, v.s))))))
        ELSE Returned(doc)

\* a plausible slip: SObjectType is rebuilt with the enum as its only field
update_sobject_type_enum_Rebuilt(doc, removed_schemas) ==
    LET schemas == Lookup(Lookup(doc.kv, S_components).kv, S_schemas)
        sot == PyGetItem(schemas, S_SObjectType)
        original_enum == PyGetItem(sot, S_enum)
    IN  IF sot.t = "dict" /\ original_enum.t = "list"
        THEN Returned(SetSchemas(doc, Dict(Store(schemas.kv, S_SObjectType,
                Obj1(S_enum, List(SelectSeq(original_enum.xs,
                        LAMBDA v : ~(v.t = "str" /\ v.s \in removed_schemas))))))))
        ELSE Returned(doc)

update_sobject_type_enum(doc, removed_schemas) ==
    LET schemas == Lookup(Lookup(doc.kv, S_components).kv, S_schemas)
        c1 == PyIn(Str(S_SObjectType), schemas)
        sot == PyGetItem(schemas, S_SObjectType)
        c2 == PyIn(Str(S_enum), sot)
        original_enum == PyGetItem(sot, S_enum)
        it == PyIter(original_enum)
        filtered_enum == EnumLoop(it.xs, removed_schemas, <<>>)
    IN  IF c1 = "F" THEN Returned(doc)
        ELSE IF c2 = "E" THEN Raised(doc)
        ELSE IF c2 = "F" THEN Returned(doc)
        ELSE IF IsExc(original_enum) THEN Raised(doc)
        ELSE IF IsExc(it) THEN Raised(doc)
        ELSE IF IsExc(filtered_enum) THEN Raised(doc)
        ELSE Returned(SetSchemas(doc, SetEnum(schemas, filtered_enum)))

filter_components(doc, keep) ==
    LET c1 == PyIn(Str(S_components), doc)
        comps == PyGetItem(doc, S_components)
        c2 == PyIn(Str(S_schemas), comps)
        original_schemas == PyGetItem(comps, S_schemas)
        kept == KeepPass(original_schemas, keep)
        filtered_schemas == ImplicitPass(original_schemas, kept)
        removed_schemas == get_removed_schemas(original_schemas, filtered_schemas)
    IN  IF c1 = "E" THEN Raised(doc)
        ELSE IF c1 = "F" THEN Returned(doc)
        ELSE IF IsExc(comps) THEN Raised(doc)
        ELSE IF c2 = "E" THEN Raised(doc)
        ELSE IF c2 = "F" THEN Returned(doc)
        ELSE IF IsExc(original_schemas) THEN Raised(doc)
        ELSE IF IsExc(kept) THEN Raised(doc)
        ELSE IF IsExc(filtered_schemas) THEN Raised(doc)
        ELSE update_sobject_type_enum(SetSchemas(doc, filtered_schemas), removed_schemas)

-----------------------------------------------------------------------------
(* Input documents *)

SeqsUpTo(S, n) == UNION {[1..k -> S] : k \in 0..n}
RefTo(name) == Str(RefPrefix \o name)

ItemSObject == Obj1(S_ref, RefTo(S_SObject))
ItemFoo == Obj1(S_ref, RefTo(Foo))
ItemNoRef == Obj1(S_type, Str(S_object))
ItemRefNull == Obj1(S_ref, Null)
ItemRefList == Obj1(S_ref, List(<<Str(S_SObject)>>))
Items == {ItemSObject, ItemFoo, ItemNoRef, ItemRefNull, ItemRefList, Null}

DefPlain == Obj1(S_type, Str(S_object))
DefDerived == Obj1(S_allOf, List(<<ItemSObject>>))
\* reaches SObject only through Bar
DefIndirect == Obj1(S_allOf, List(<<Obj1(S_ref, RefTo(Bar))>>))
\* the match is in the second item, inside a longer name
DefDerivedLate == Obj1(S_allOf, List(<<ItemNoRef, Obj1(S_ref, RefTo(S_SObjectType))>>))
\* same letters, other case
DefLowercase == Obj1(S_allOf, List(<<Obj1(S_ref, RefTo(S_sobject))>>))
GenericDefs == {DefPlain, DefDerived, DefIndirect, DefDerivedLate, DefLowercase}

NamesEnum == List(<<Str(Foo), Str(Bar)>>)
SotPlain == Obj2(S_type, Str(S_string), S_enum, NamesEnum)
SotDerived == Obj2(S_allOf, List(<<ItemSObject>>), S_enum, NamesEnum)
SotDefs == {SotPlain, SotDerived}

SchemaNames == {Foo, Bar, S_SObjectType}
DefsFor(name) == IF name = S_SObjectType THEN SotDefs ELSE GenericDefs
NameOrders ==
    {o \in SeqsUpTo(SchemaNames, Cardinality(SchemaNames)) :
        \A i, j \in 1..Len(o) : i # j => o[i] # o[j]}

\* every ordered mapping of distinct names to well-formed definitions
SelectionSchemas ==
    UNION {{Dict([i \in 1..Len(o) |-> <<o[i], f[i]>>]) :
                f \in {g \in [1..Len(o) -> GenericDefs \cup SotDefs] :
                          \A i \in 1..Len(o) : g[i] \in DefsFor(o[i])}} :
           o \in NameOrders}

\* the shapes of one definition, well-formed and not
ShapeDefs ==
    {Obj1(S_allOf, List(l)) : l \in SeqsUpTo(Items, MaxAllOf)}
    \cup {Obj1(S_allOf, Null), Obj1(S_allOf, RefTo(S_SObject)),
          Obj1(S_allOf, ItemSObject), Null, Str(S_allOf), List(<<>>)}
ShapeSchemas ==
    {Dict(<< <<Foo, DefPlain>>, <<Bar, d>>, <<S_SObjectType, SotPlain>> >>) :
        d \in ShapeDefs}

\* the shapes of SObjectType
EnumValues == {Str(Foo), Str(Bar), Str(Other), Num(1)}
EnumDefs ==
    {Obj2(S_type, Str(S_string), S_enum, List(l)) : l \in SeqsUpTo(EnumValues, MaxEnum)}
    \cup {Obj1(S_type, Str(S_string)), Obj1(S_enum, Null), Obj1(S_enum, Str(Foo)),
          Obj1(S_enum, List(<<List(<<Str(Foo)>>)>>)), Null, Str(S_enum)}
EnumSchemas ==
    {Dict(<< <<Bar, DefDerived>>, <<S_SObjectType, e>>, <<Foo, DefDerived>> >>) :
        e \in EnumDefs}

PathsValue == Obj1(<<"/","b","a","r">>, ItemSObject)
ParametersValue == Obj1(<<"p">>, Obj1(S_ref, RefTo(Bar)))
WithSchemas(s) ==
    Obj2(S_paths, PathsValue,
         S_components, Obj2(S_schemas, s, S_parameters, ParametersValue))

\* documents without a usable components.schemas
PartialDocs ==
    {Obj1(S_paths, PathsValue),
     Obj2(S_paths, PathsValue, S_components, Obj1(S_parameters, ParametersValue)),
     Obj1(S_components, Dict(<<>>)),
     Obj1(S_components, Null),
     Obj1(S_components, List(<<>>)),
     Obj1(S_components, List(<<Str(S_schemas)>>)),
     Obj1(S_components, Str(S_schemas)),
     WithSchemas(Null),
     WithSchemas(List(<<Str(Foo)>>)),
     Dict(<<>>), Null, List(<<>>)}

Documents ==
    {WithSchemas(s) : s \in SelectionSchemas \cup ShapeSchemas \cup EnumSchemas}
    \cup PartialDocs

KeepNames == {Foo, Bar, S_SObjectType, Nope}
KeepLists == SeqsUpTo(KeepNames, MaxKeep)

-----------------------------------------------------------------------------
(* Direct calls of filter_components *)

NoFile == [kind |-> "none"]

Init ==
    /\ spec \in Documents
    /\ given = spec
    /\ prev = spec
    /\ objects_to_keep \in KeepLists
    /\ calls = 0
    /\ outcome = "none"
    /\ pc = "lib"
    /\ keep_args = <<>>
    /\ files = <<>>
    /\ input_file = NoFile
    /\ output_file = NoFile
    /\ stdout = <<>>
    /\ stderr = <<>>
    /\ status = -1

HasSchemas(doc) ==
    /\ doc.t = "dict"
    /\ HasKey(doc.kv, S_components)
    /\ Lookup(doc.kv, S_components).t = "dict"
    /\ HasKey(Lookup(doc.kv, S_components).kv, S_schemas)
SchemasOf(doc) == Lookup(Lookup(doc.kv, S_components).kv, S_schemas)

CallFilter(keep) ==
    LET r == filter_components(spec, keep)
    IN  /\ prev' = spec
        /\ spec' = r.spec
        /\ objects_to_keep' = keep
        /\ outcome' = IF r.raised THEN "raised" ELSE "returned"
        /\ calls' = calls + 1
        /\ UNCHANGED given

Filter ==
    /\ pc = "lib"
    /\ calls = 0
    /\ CallFilter(objects_to_keep)
    /\ UNCHANGED <<pc, keep_args, files, input_file, output_file, stdout, stderr, status>>

\* the caller filters the filtered document again, with the same keep-list
FilterAgain ==
    /\ pc = "lib"
    /\ calls = 1
    /\ outcome = "returned"
    /\ CallFilter(objects_to_keep)
    /\ UNCHANGED <<pc, keep_args, files, input_file, output_file, stdout, stderr, status>>

\* ... or with the keep-list extended by the names the first call retained
FilterAgainPlus ==
    /\ pc = "lib"
    /\ calls = 1
    /\ outcome = "returned"
    /\ HasSchemas(spec)
    /\ CallFilter(objects_to_keep \o KeySeq(SchemasOf(spec).kv))
    /\ UNCHANGED <<pc, keep_args, files, input_file, output_file, stdout, stderr, status>>

Next == Filter \/ FilterAgain \/ FilterAgainPlus

Spec == Init /\ [][Next]_vars

-----------------------------------------------------------------------------
(* The keep-list resolution: read_objects_from_file, parse_keep_argument *)

\* what str.strip() removes (the ASCII part)
IsSpace(c) == c \in {" ", "\n", "\t", "\r"}

\* f.readlines(): the text cut after each newline, the newline kept
RECURSIVE readlines(_, _)
readlines(text, line) ==
    IF text = <<>> THEN (IF line = <<>> THEN <<>> ELSE <<line>>)
    ELSE IF Head(text) = "\n"
         THEN <<Append(line, "\n")>> \o readlines(Tail(text), <<>>)
         ELSE readlines(Tail(text), Append(line, Head(text)))

RECURSIVE lstrip(_)
lstrip(s) == IF s # <<>> /\ IsSpace(Head(s)) THEN lstrip(Tail(s)) ELSE s
RECURSIVE rstrip(_)
rstrip(s) ==
    IF s # <<>> /\ IsSpace(s[Len(s)]) THEN rstrip(SubSeq(s, 1, Len(s) - 1)) ELSE s
strip(s) == rstrip(lstrip(s))

Names(ns) == [exit |-> FALSE, names |-> ns]
SysExit == [exit |-> TRUE, names |-> <<>>]

\* a file system entry: kind is "absent", "dir", "file" or "unreadable"
Entry(k, txt) == [kind |-> k, text |-> txt]
isfile(entry) == entry.kind \in {"file", "unreadable"}

\* a plausible slip: blank lines are not skipped
read_objects_from_file_KeepBlank(file_path, entry) ==
    CASE entry.kind = "file" ->
            LET lines == readlines(entry.text, <<>>)
            IN  Names([i \in 1..Len(lines) |-> strip(lines[i])])
      [] entry.kind = "absent" -> Names(<<file_path>>)
      [] OTHER -> SysExit

\* lines 18-27; entry is what open(file_path) finds
read_objects_from_file(file_path, entry) ==
    CASE entry.kind = "file" ->
            LET lines == readlines(entry.text, <<>>)
                stripped == [i \in 1..Len(lines) |-> strip(lines[i])]
            IN  Names(SelectSeq(stripped, LAMBDA l : l # <<>>))
      [] entry.kind = "absent" -> Names(<<file_path>>)
      [] OTHER -> SysExit

RECURSIVE parse_keep_loop(_, _, _)
parse_keep_loop(args, fs, acc) ==
    IF args = <<>> THEN Names(acc)
    ELSE LET arg == Head(args)
             r == read_objects_from_file(arg, fs[arg])
         IN  IF isfile(fs[arg])
             THEN IF r.exit THEN SysExit
                  ELSE parse_keep_loop(Tail(args), fs, acc \o r.names)
             ELSE parse_keep_loop(Tail(args), fs, Append(acc, arg))

parse_keep_argument(args, fs) == parse_keep_loop(args, fs, <<>>)

KeepPath == <<"k">>
ScenarioDText == Foo \o <<"\n", "\n">> \o Bar \o <<"\n">>
FileChars == {"a", " ", "\n"}
Texts == SeqsUpTo(FileChars, MaxFileLen) \cup {ScenarioDText}
ArgStrings == {Foo, Bar, KeepPath}
KeepPathEntries ==
    {Entry("file", txt) : txt \in Texts}
    \cup {Entry("absent", <<>>), Entry("dir", <<>>), Entry("unreadable", <<>>)}
\* the keep path is anything; a literal name may also happen to name a file
FileSystems ==
    {[a \in ArgStrings |->
        IF a = KeepPath THEN e
        ELSE IF a = Foo /\ fooIsFile THEN Entry("file", Bar \o <<" ">>)
        ELSE Entry("absent", <<>>)] :
     e \in KeepPathEntries, fooIsFile \in BOOLEAN}

KeepInit ==
    /\ spec = Null
    /\ given = Null
    /\ prev = Null
    /\ objects_to_keep = <<>>
    /\ calls = 0
    /\ outcome = "none"
    /\ pc = "keep"
    /\ keep_args \in SeqsUpTo(ArgStrings, MaxArgs)
    /\ files \in FileSystems
    /\ input_file = NoFile
    /\ output_file = NoFile
    /\ stdout = <<>>
    /\ stderr = <<>>
    /\ status = -1

\* parse_keep_argument(keep_args), called directly
ParseKeep ==
    /\ pc = "keep"
    /\ LET r == parse_keep_argument(keep_args, files)
       IN  IF r.exit
           THEN /\ pc' = "exit"
                /\ stdout' = Append(stdout, "Error reading objects file")
                /\ status' = 1
                /\ UNCHANGED objects_to_keep
           ELSE /\ pc' = "kept"
                /\ objects_to_keep' = r.names
                /\ UNCHANGED <<stdout, status>>
    /\ UNCHANGED <<spec, given, prev, calls, outcome, keep_args, files,
                   input_file, output_file, stderr>>

KeepNext == ParseKeep

KeepSpec == KeepInit /\ [][KeepNext]_vars

-----------------------------------------------------------------------------
(* main, from the try block on (line 128).  The input file is what         *)
(* json.load finds: kind "missing", "denied", "invalid" (not JSON) or      *)
(* "json" with the document the text encodes.  The output file is          *)
(* "writable", "nodir" (open raises FileNotFoundError) or "denied", and    *)
(* becomes "written" with the document json.dump was given.                *)

InFile(k, d) == [kind |-> k, doc |-> d]
OutFile(k, d) == [kind |-> k, doc |-> d]

ScenarioA ==
    WithSchemas(Dict(<< <<Foo, DefPlain>>, <<Bar, DefDerived>>,
                        <<S_SObjectType, SotPlain>> >>))
MainInputs ==
    {InFile("missing", Null), InFile("denied", Null), InFile("invalid", Null),
     InFile("json", ScenarioA),
     InFile("json", Obj1(S_paths, PathsValue)),
     InFile("json", Obj1(S_components, Null)),
     InFile("json", WithSchemas(Dict(<< <<Bar, Obj1(S_allOf, List(<<ItemRefNull>>))>> >>)))}
MainOutputs == {OutFile("writable", Null), OutFile("nodir", Null), OutFile("denied", Null)}
MainKeepArgs == {<<>>, <<Bar>>, <<KeepPath>>, <<Bar, KeepPath>>}
MainFileSystems ==
    {[a \in ArgStrings |-> IF a = KeepPath THEN e ELSE Entry("absent", <<>>)] :
     e \in {Entry("file", ScenarioDText), Entry("file", <<>>), Entry("absent", <<>>),
            Entry("dir", <<>>), Entry("unreadable", <<>>)}}

MainInit ==
    /\ spec = Null
    /\ given = Null
    /\ prev = Null
    /\ objects_to_keep = <<>>
    /\ calls = 0
    /\ outcome = "none"
    /\ pc = "main"
    /\ keep_args \in MainKeepArgs
    /\ files \in MainFileSystems
    /\ input_file \in MainInputs
    /\ output_file \in MainOutputs
    /\ stdout = <<>>
    /\ stderr = <<>>
    /\ status = -1

\* print(message) and sys.exit(1): the message goes to standard output
FailWith(message) ==
    /\ pc' = "exit"
    /\ stdout' = Append(stdout, message)
    /\ status' = 1
    /\ UNCHANGED stderr

\* line 130
MainParseKeep ==
    /\ pc = "main"
    /\ LET r == parse_keep_argument(keep_args, files)
       IN  IF r.exit
           THEN FailWith("Error reading objects file") /\ UNCHANGED objects_to_keep
           ELSE /\ pc' = "read"
                /\ objects_to_keep' = r.names
                /\ UNCHANGED <<stdout, stderr, status>>
    /\ UNCHANGED <<spec, given, prev, calls, outcome, keep_args, files,
                   input_file, output_file>>

\* lines 133-134, with the handlers of lines 145-153
MainReadInput ==
    /\ pc = "read"
    /\ CASE input_file.kind = "missing" ->
                FailWith("Error: Could not find input file") /\ UNCHANGED <<spec, given, prev>>
         [] input_file.kind = "invalid" ->
                FailWith("Error: Invalid JSON in input file") /\ UNCHANGED <<spec, given, prev>>
         [] input_file.kind = "denied" ->
                FailWith("Error: exception text") /\ UNCHANGED <<spec, given, prev>>
         [] OTHER ->
                /\ pc' = "filter"
                /\ spec' = input_file.doc
                /\ given' = input_file.doc
                /\ prev' = input_file.doc
                /\ UNCHANGED <<stdout, stderr, status>>
    /\ UNCHANGED <<objects_to_keep, calls, outcome, keep_args, files,
                   input_file, output_file>>

\* line 137
MainFilter ==
    /\ pc = "filter"
    /\ CallFilter(objects_to_keep)
    /\ IF filter_components(spec, objects_to_keep).raised
       THEN FailWith("Error: exception text")
       ELSE pc' = "write" /\ UNCHANGED <<stdout, stderr, status>>
    /\ UNCHANGED <<keep_args, files, input_file, output_file>>

\* lines 140-143
MainWrite ==
    /\ pc = "write"
    /\ CASE output_file.kind = "nodir" ->
                FailWith("Error: Could not find input file") /\ UNCHANGED output_file
         [] output_file.kind = "denied" ->
                FailWith("Error: exception text") /\ UNCHANGED output_file
         [] OTHER ->
                /\ output_file' = OutFile("written", spec)
                /\ stdout' = Append(stdout, "Successfully filtered specification")
                /\ status' = 0
                /\ pc' = "exit"
                /\ UNCHANGED stderr
    /\ UNCHANGED <<spec, given, prev, objects_to_keep, calls, outcome, keep_args,
                   files, input_file>>

MainNext == MainParseKeep \/ MainReadInput \/ MainFilter \/ MainWrite

MainSpec == MainInit /\ [][MainNext]_vars

-----------------------------------------------------------------------------
(* Properties of filter_components *)

\* the last call returned, on a document that had components.schemas
Filtered == calls >= 1 /\ outcome = "returned" /\ HasSchemas(prev)
Orig == SchemasOf(prev).kv
Ret == SchemasOf(spec).kv
KeepSet == {objects_to_keep[i] : i \in 1..Len(objects_to_keep)}
Removed == Keys(Orig) \ Keys(Ret)

\* SObject-derived, as the data model states it: some direct item of the allOf
\* list carries a $ref string that contains "SObject"
SObjectDerived(def) ==
    /\ def.t = "dict"
    /\ HasKey(def.kv, S_allOf)
    /\ LET a == Lookup(def.kv, S_allOf)
       IN  /\ a.t = "list"
           /\ \E i \in 1..Len(a.xs) :
                 /\ a.xs[i].t = "dict"
                 /\ HasKey(a.xs[i].kv, S_ref)
                 /\ Lookup(a.xs[i].kv, S_ref).t = "str"
                 /\ IsSubstr(S_SObject, Lookup(a.xs[i].kv, S_ref).s)

\* every $ref carried by an allOf item is a string (the data model's shape)
RefsAreStrings(def) ==
    (def.t = "dict" /\ HasKey(def.kv, S_allOf) /\ Lookup(def.kv, S_allOf).t = "list")
    => \A i \in 1..Len(Lookup(def.kv, S_allOf).xs) :
          LET item == Lookup(def.kv, S_allOf).xs[i]
          IN  (item.t = "dict" /\ HasKey(item.kv, S_ref))
                 => Lookup(item.kv, S_ref).t = "str"
OrigRefsAreStrings == \A i \in 1..Len(Orig) : RefsAreStrings(Orig[i][2])

\* C1: after filter_components the retained names are names of the original
\* mapping, and every keep-list name that exists in the original is retained;
\* keep-list names absent from the original do not appear.
C1_RetainedBetweenKeptAndOriginal ==
    Filtered =>
        /\ Keys(Ret) \subseteq Keys(Orig)
        /\ \A n \in KeepSet : n \in Keys(Orig) => n \in Keys(Ret)
        /\ \A n \in KeepSet : n \notin Keys(Orig) => n \notin Keys(Ret)

\* a first call with an unknown keep name, a kept SObject-derived schema and a
\* removed schema
C1_Witness ==
    /\ Filtered /\ calls = 1
    /\ \E n \in KeepSet : n \notin Keys(Orig)
    /\ \E n \in KeepSet : n \in Keys(Ret) /\ SObjectDerived(Lookup(Orig, n))
    /\ Removed # {}

SotHasEnumList(kv) ==
    /\ HasKey(kv, S_SObjectType)
    /\ Lookup(kv, S_SObjectType).t = "dict"
    /\ HasKey(Lookup(kv, S_SObjectType).kv, S_enum)
    /\ Lookup(Lookup(kv, S_SObjectType).kv, S_enum).t = "list"
EnumOf(kv) == Lookup(Lookup(kv, S_SObjectType).kv, S_enum).xs

\* C3: after filter_components, the enum of a retained SObjectType is its
\* original list with exactly the removed names dropped, in the original order.
C3_EnumIsOriginalMinusRemoved ==
    (Filtered /\ HasKey(Ret, S_SObjectType) /\ SotHasEnumList(Orig)) =>
        /\ SotHasEnumList(Ret)
        /\ EnumOf(Ret) =
              SelectSeq(EnumOf(Orig), LAMBDA v : ~(v.t = "str" /\ v.s \in Removed))

\* a first call whose enum loses a removed name and keeps a value naming no schema
C3_Witness ==
    /\ Filtered /\ calls = 1 /\ HasKey(Ret, S_SObjectType) /\ SotHasEnumList(Orig)
    /\ \E i \in 1..Len(EnumOf(Orig)) :
          EnumOf(Orig)[i].t = "str" /\ EnumOf(Orig)[i].s \in Removed
    /\ \E i \in 1..Len(EnumOf(Ret)) : EnumOf(Ret)[i] = Str(Other)

\* C4: filter_components never raises, whatever the document and keep-list.
C4_NeverRaises == calls >= 1 => outcome = "returned"

\* C4, second half: a definition whose matching $ref is not a string counts as
\* not SObject-derived, so it is retained.
C4_NonStringRefIsNoMatch ==
    Filtered =>
        \A n \in Keys(Orig) : ~SObjectDerived(Lookup(Orig, n)) => n \in Keys(Ret)

\* C5: a document (a JSON object) without components, or without
\* components.schemas, is returned equal to the input.
C5_NoSchemasUnchanged ==
    (calls >= 1 /\ prev.t = "dict" /\ ~HasSchemas(prev)) =>
        (outcome = "returned" /\ spec = prev)

\* C6: filtering the filtered document again, with the same keep-list or with
\* that list plus the retained names, returns and removes no schema.
C6_SecondRunRemovesNothing ==
    calls = 2 =>
        /\ outcome = "returned"
        /\ HasSchemas(prev) => (HasSchemas(spec) /\ Keys(Ret) = Keys(Orig))

\* a second call after a first call that removed a schema
C6_Witness ==
    /\ calls = 2 /\ HasSchemas(given) /\ HasSchemas(spec)
    /\ SchemasOf(given).t = "dict"
    /\ Keys(SchemasOf(given).kv) # Keys(Ret)
    /\ Ret # <<>>
    /\ Len(objects_to_keep) > 0

SameExcept(a, b, k) ==
    /\ KeySeq(a) = KeySeq(b)
    /\ \A i \in 1..Len(a) : a[i][1] # k => a[i] = b[i]

\* C7: only components.schemas changes; a retained definition is the original
\* one, except the enum field of SObjectType.
C7_OnlySchemasChange ==
    calls >= 1 =>
        \/ spec = prev
        \/ /\ HasSchemas(prev) /\ HasSchemas(spec)
           /\ spec.t = "dict"
           /\ SameExcept(spec.kv, prev.kv, S_components)
           /\ SameExcept(Lookup(spec.kv, S_components).kv,
                         Lookup(prev.kv, S_components).kv, S_schemas)
           /\ SchemasOf(prev).t = "dict" /\ SchemasOf(spec).t = "dict"
           /\ \A n \in Keys(Ret) :
                 /\ n \in Keys(Orig)
                 /\ \/ Lookup(Ret, n) = Lookup(Orig, n)
                    \/ /\ n = S_SObjectType
                       /\ Lookup(Ret, n).t = "dict" /\ Lookup(Orig, n).t = "dict"
                       /\ SameExcept(Lookup(Ret, n).kv, Lookup(Orig, n).kv, S_enum)

\* a first call that removes Bar, which the parameters still reference, and
\* rewrites the enum of an SObjectType that has another field
C7_Witness ==
    /\ Filtered /\ calls = 1
    /\ Bar \in Removed
    /\ HasKey(Ret, S_SObjectType)
    /\ Lookup(Ret, S_SObjectType) # Lookup(Orig, S_SObjectType)
    /\ HasKey(Lookup(Ret, S_SObjectType).kv, S_type)
    /\ Lookup(Lookup(spec.kv, S_components).kv, S_parameters) = ParametersValue

FirstOccurrences(s) ==
    LET F[i \in 0..Len(s)] ==
            IF i = 0 THEN <<>>
            ELSE IF \E j \in 1..(i - 1) : s[j] = s[i] THEN F[i - 1]
            ELSE Append(F[i - 1], s[i])
    IN  F[Len(s)]

-----------------------------------------------------------------------------
(* Properties of parse_keep_argument *)

LineNo(text, i) == Cardinality({j \in 1..(i - 1) : text[j] = "\n"})
Inked(text, n) == {i \in 1..Len(text) : ~IsSpace(text[i]) /\ LineNo(text, i) = n}
Min(S) == CHOOSE x \in S : \A y \in S : x <= y
Max(S) == CHOOSE x \in S : \A y \in S : x >= y

\* the non-blank lines of a text, trimmed, in order
TrimmedLines(text) ==
    LET F[n \in 0..Len(text)] ==
            LET before == IF n = 0 THEN <<>> ELSE F[n - 1]
                ink == Inked(text, n)
            IN  IF ink = {} THEN before
                ELSE Append(before, SubSeq(text, Min(ink), Max(ink)))
    IN  F[Len(text)]

Contribution(arg) ==
    IF files[arg].kind = "file" THEN TrimmedLines(files[arg].text) ELSE <<arg>>

RECURSIVE Contributions(_)
Contributions(args) ==
    IF args = <<>> THEN <<>> ELSE Contribution(Head(args)) \o Contributions(Tail(args))

\* C8: each --keep argument is resolved on its own and in order: an existing
\* file gives its trimmed non-blank lines in file order, any other argument
\* gives itself; the result is the concatenation in argument order.
C8_KeepListIsConcatenation ==
    pc = "kept" => objects_to_keep = Contributions(keep_args)

\* a literal name followed by the file "Foo\n\nBar\n"
C8_Witness ==
    /\ pc = "kept"
    /\ keep_args = <<Bar, KeepPath>>
    /\ files[KeepPath] = Entry("file", ScenarioDText)
    /\ objects_to_keep = <<Bar, Foo, Bar>>

-----------------------------------------------------------------------------
(* Properties of main *)

\* C9: a run ends either in success (status 0, the confirmation printed, the
\* filtered document written) or in failure (non-zero status, a message on the
\* error stream).
C9_SuccessOrErrorOnStderr ==
    pc = "exit" =>
        \/ /\ status = 0
           /\ stdout = <<"Successfully filtered specification">>
           /\ stderr = <<>>
           /\ output_file = OutFile("written", spec)
           /\ outcome = "returned"
        \/ /\ status # 0
           /\ Len(stderr) = 1
           /\ output_file.kind # "written"

\* what the code does instead: the failure message is on standard output
MainEndsWithMessageOnStdout ==
    pc = "exit" =>
        \/ /\ status = 0
           /\ stdout = <<"Successfully filtered specification">>
           /\ stderr = <<>>
           /\ output_file = OutFile("written", spec)
           /\ outcome = "returned"
        \/ /\ status = 1
           /\ Len(stdout) = 1 /\ stdout[1] # "Successfully filtered specification"
           /\ stderr = <<>>
           /\ output_file.kind # "written"

====
